---- MODULE Spec2Model ----
(***************************************************************************)
(* Model of export_chats.py (class CursorChatExporter): discovery of the    *)
(* state.vscdb databases, the per-database / per-table scan, the two row    *)
(* heuristics, timestamp extraction, the keyword and date filters and the   *)
(* export writer.                                                           *)
(*                                                                          *)
(* Python strings are sequences of one-character strings, so that str(),    *)
(* lower(), "in", isdigit(), isalnum(), replace() and the ISO-8601          *)
(* rendering / parsing are computed, not assumed.  Numbers that exceed the  *)
(* TLC integer range       (epoch milliseconds, 1e30) are sequences of      *)
(* decimal digits.                                                          *)
(***************************************************************************)
EXTENDS Integers, Sequences, FiniteSets, TLC

VARIABLES
    storage_exists,  \* self.storage_path.exists()
    files,           \* the state.vscdb files glob finds, in discovery order
    keywords,        \* export_chats argument
    start_date,      \* export_chats argument (a Python value: null or text)
    end_date,        \* export_chats argument
    debug_mode,      \* export_chats argument
    recent_hours,    \* export_chats argument (0 stands for None)
    pc,              \* position of the run inside export_chats / query_database
    databases,       \* local of export_chats
    dbi,             \* index of the database the for loop of line 306 is at
    tables,          \* local of query_database
    ti,              \* index of the table the for loop of line 87 is at
    chats,           \* local of query_database
    all_chats,       \* local of export_chats
    open_conns,      \* ids of the databases whose sqlite3 connection is open
    opened,          \* ids of the databases handed to query_database, in order
    out_dir,         \* whether output_path.mkdir has run
    out_file,        \* the document json.dump wrote, if any
    ret,             \* what export_chats returned, if it has
    exc,             \* the exception that left export_chats, if any
    hist             \* what the steps of the run saw (read by the properties only)

vars == <<storage_exists, files, keywords, start_date, end_date, debug_mode,
          recent_hours, pc, databases, dbi, tables, ti, chats, all_chats,
          open_conns, opened, out_dir, out_file, ret, exc, hist>>

inputs == <<storage_exists, files, keywords, start_date, end_date, debug_mode,
            recent_hours>>

-----------------------------------------------------------------------------
(* Python strings                                                          *)

DigitChars == <<"0", "1", "2", "3", "4", "5", "6", "7", "8", "9">>

UpperChars ==
    <<"A", "B", "C", "D", "E", "F", "G", "H", "I", "J", "K", "L", "M", "N", "O", "P",
    "Q", "R", "S", "T", "U", "V", "W", "X", "Y", "Z">>

LowerChars ==
    <<"a", "b", "c", "d", "e", "f", "g", "h", "i", "j", "k", "l", "m", "n", "o", "p",
    "q", "r", "s", "t", "u", "v", "w", "x", "y", "z">>

Range(s) == {s[i] : i \in 1..Len(s)}

IndexOf(s, c) == CHOOSE i \in 1..Len(s) : s[i] = c

\* str.lower() on one character
LowerChar(c) == IF c \in Range(UpperChars) THEN LowerChars[IndexOf(UpperChars, c)] ELSE c

\* str.lower()
Lower(s) == [i \in 1..Len(s) |-> LowerChar(s[i])]

\* str.isdigit()
IsDigit(s) == Len(s) > 0 /\ \A i \in 1..Len(s) : s[i] \in Range(DigitChars)

\* str.isalnum()
IsAlnum(s) ==
    /\ Len(s) > 0
    /\ \A i \in 1..Len(s) :
          s[i] \in Range(DigitChars) \cup Range(UpperChars) \cup Range(LowerChars)

\* k in t, for strings
IsSubstr(k, t) ==
    \E i \in 0..(Len(t) - Len(k)) : SubSeq(t, i + 1, i + Len(k)) = k

\* s.replace(c, ''): every occurrence of the character c removed
Remove(s, c) == SelectSeq(s, LAMBDA x : x # c)

RECURSIVE Concat(_)
Concat(ss) == IF ss = <<>> THEN <<>> ELSE Head(ss) \o Concat(Tail(ss))

\* sep.join(parts)
RECURSIVE Join(_, _)
Join(sep, parts) ==
    IF parts = <<>> THEN <<>>
    ELSE IF Len(parts) = 1 THEN parts[1]
    ELSE parts[1] \o sep \o Join(sep, Tail(parts))

\* s.replace('Z', '+00:00')
ReplaceZ(s) ==
    Concat([i \in 1..Len(s) |->
              IF s[i] = "Z" THEN <<"+", "0", "0", ":", "0", "0">> ELSE <<s[i]>>])

\* the decimal digit a character stands for
DigitVal(c) == IndexOf(DigitChars, c) - 1

\* the characters of a sequence of decimal digits
DigitStr(d) == [i \in 1..Len(d) |-> DigitChars[d[i] + 1]]

\* a natural number as exactly n decimal digits (zero padded)
RECURSIVE Pad(_, _)
Pad(n, w) == IF w = 0 THEN <<>> ELSE Pad(n \div 10, w - 1) \o <<DigitChars[(n % 10) + 1]>>

-----------------------------------------------------------------------------
(* Numbers of the program, and the bounds of the model                      *)

\* len(str_value) > 5
IdLength == 5

\* len(str_value) < 50
ShortLength == 50

\* LIMIT 10
SampleLimit == 10

\* databases[:5]
DebugLimit == 5

\* recent_hours * 3600
SecondsPerHour == 3600

\* datetime.now().timestamp()
Now == 1700000000

\* tables per database
MaxTables == 2

\* databases under the storage root
MaxDbs == 6

\* rows per table
MaxRows == 2

\* keywords per run
MaxKeywords == 2

-----------------------------------------------------------------------------
(* String literals                                                          *)

\* "composer.composerData"
k_composerData ==
    <<"c", "o", "m", "p", "o", "s", "e", "r", ".", "c", "o", "m", "p", "o", "s", "e",
    "r", "D", "a", "t", "a">>

\* "workbench.panel.aichat"
k_aichat ==
    <<"w", "o", "r", "k", "b", "e", "n", "c", "h", ".", "p", "a", "n", "e", "l", ".",
    "a", "i", "c", "h", "a", "t">>

\* "workbench.panel.composerChatViewPane"
k_composerChatViewPane ==
    <<"w", "o", "r", "k", "b", "e", "n", "c", "h", ".", "p", "a", "n", "e", "l", ".",
    "c", "o", "m", "p", "o", "s", "e", "r", "C", "h", "a", "t", "V", "i", "e", "w",
    "P", "a", "n", "e">>

\* "aiService.generations"
k_generations ==
    <<"a", "i", "S", "e", "r", "v", "i", "c", "e", ".", "g", "e", "n", "e", "r", "a",
    "t", "i", "o", "n", "s">>

\* "aiService.prompts"
k_prompts ==
    <<"a", "i", "S", "e", "r", "v", "i", "c", "e", ".", "p", "r", "o", "m", "p", "t",
    "s">>

\* "CHAT_DATA - "
CHAT_DATA_prefix ==
    <<"C", "H", "A", "T", "_", "D", "A", "T", "A", " ", "-", " ">>

\* ": "
colon_space ==
    <<":", " ">>

\* "\n"
newline ==
    <<"\n">>

\* "None"
str_None ==
    <<"N", "o", "n", "e">>

\* "key"
col_key ==
    <<"k", "e", "y">>

\* "value"
col_value ==
    <<"v", "a", "l", "u", "e">>

\* "timestamp"
col_timestamp ==
    <<"t", "i", "m", "e", "s", "t", "a", "m", "p">>

\* "created_at"
col_created_at ==
    <<"c", "r", "e", "a", "t", "e", "d", "_", "a", "t">>

\* "updated_at"
col_updated_at ==
    <<"u", "p", "d", "a", "t", "e", "d", "_", "a", "t">>

\* "time"
col_time ==
    <<"t", "i", "m", "e">>

\* "date"
col_date ==
    <<"d", "a", "t", "e">>

\* "id"
col_id ==
    <<"i", "d">>

\* "body"
col_body ==
    <<"b", "o", "d", "y">>

\* "ItemTable"
tbl_ItemTable ==
    <<"I", "t", "e", "m", "T", "a", "b", "l", "e">>

\* "events"
tbl_events ==
    <<"e", "v", "e", "n", "t", "s">>

\* "workbench.panel.aichat.view"
key_aichat_view ==
    <<"w", "o", "r", "k", "b", "e", "n", "c", "h", ".", "p", "a", "n", "e", "l", ".",
    "a", "i", "c", "h", "a", "t", ".", "v", "i", "e", "w">>

\* "some long conversation text about rails api authentication"
val_conversation ==
    <<"s", "o", "m", "e", " ", "l", "o", "n", "g", " ", "c", "o", "n", "v", "e", "r",
    "s", "a", "t", "i", "o", "n", " ", "t", "e", "x", "t", " ", "a", "b", "o", "u",
    "t", " ", "r", "a", "i", "l", "s", " ", "a", "p", "i", " ", "a", "u", "t", "h",
    "e", "n", "t", "i", "c", "a", "t", "i", "o", "n">>

\* "unrelated.setting"
key_unrelated ==
    <<"u", "n", "r", "e", "l", "a", "t", "e", "d", ".", "s", "e", "t", "t", "i", "n",
    "g">>

\* "42"
val_42 ==
    <<"4", "2">>

\* "rails"
kw_rails ==
    <<"r", "a", "i", "l", "s">>

\* "notes"
tbl_notes ==
    <<"n", "o", "t", "e", "s">>

\* "drafts"
tbl_empty ==
    <<"d", "r", "a", "f", "t", "s">>

\* "Rails notes"
val_rails_notes ==
    <<"R", "a", "i", "l", "s", " ", "n", "o", "t", "e", "s">>

\* "api guide"
val_api_guide ==
    <<"a", "p", "i", " ", "g", "u", "i", "d", "e">>

\* "plain words"
val_plain ==
    <<"p", "l", "a", "i", "n", " ", "w", "o", "r", "d", "s">>

\* "Rails"
kw_Rails ==
    <<"R", "a", "i", "l", "s">>

\* "api"
kw_api ==
    <<"a", "p", "i">>

\* "zzz"
kw_zzz ==
    <<"z", "z", "z">>

\* "2024-06-01"
d_2024_06_01 ==
    <<"2", "0", "2", "4", "-", "0", "6", "-", "0", "1">>

\* "06/01/2024"
d_slashes ==
    <<"0", "6", "/", "0", "1", "/", "2", "0", "2", "4">>

\* "2024-05-31T23:59:59"
ts_before ==
    <<"2", "0", "2", "4", "-", "0", "5", "-", "3", "1", "T", "2", "3", ":", "5", "9",
    ":", "5", "9">>

\* "2024-06-01T00:00:00"
ts_midnight ==
    <<"2", "0", "2", "4", "-", "0", "6", "-", "0", "1", "T", "0", "0", ":", "0", "0",
    ":", "0", "0">>

\* "2024-06-01T00:00:01"
ts_after ==
    <<"2", "0", "2", "4", "-", "0", "6", "-", "0", "1", "T", "0", "0", ":", "0", "0",
    ":", "0", "1">>

\* "2024-06-01T00:00:00Z"
ts_zulu ==
    <<"2", "0", "2", "4", "-", "0", "6", "-", "0", "1", "T", "0", "0", ":", "0", "0",
    ":", "0", "0", "Z">>

\* "last tuesday"
ts_words ==
    <<"l", "a", "s", "t", " ", "t", "u", "e", "s", "d", "a", "y">>

-----------------------------------------------------------------------------
(* Python values a sqlite3 row holds: NULL, TEXT, INTEGER, REAL.  A number  *)
(* is its sign and the decimal digits of its (integral) magnitude, without  *)
(* leading zeros; frac is a fraction in thousandths (it arises from the     *)
(* division by 1000 only).                                                  *)

Null == [t |-> "null"]

Text(s) == [t |-> "text", s |-> s]

Integer(neg, d) == [t |-> "int", neg |-> neg, d |-> d, frac |-> 0]

Real(neg, d) == [t |-> "real", neg |-> neg, d |-> d, frac |-> 0]

\* isinstance(v, (int, float))
IsNumber(v) == v.t \in {"int", "real"}

IsZero(v) == v.frac = 0 /\ \A i \in 1..Len(v.d) : v.d[i] = 0

\* bool(v): the truth value the conditions "if v" and "not v" use
Truthy(v) ==
    CASE v.t = "null" -> FALSE
      [] v.t = "text" -> Len(v.s) > 0
      [] OTHER -> ~IsZero(v)

\* a < b for magnitudes given as digit sequences without leading zeros
DigitsLess(a, b) ==
    \/ Len(a) < Len(b)
    \/ /\ Len(a) = Len(b)
       /\ \E i \in 1..Len(a) : a[i] < b[i] /\ \A j \in 1..(i - 1) : a[j] = b[j]

\* the digits with the trailing zeros dropped (at least one digit kept)
RECURSIVE StripZeros(_)
StripZeros(d) ==
    IF Len(d) > 1 /\ d[Len(d)] = 0 THEN StripZeros(SubSeq(d, 1, Len(d) - 1)) ELSE d

\* repr() of an integral float: fixed notation below 1e16, else d.ddde+XX
FloatRepr(v) ==
    LET sign == IF v.neg /\ ~IsZero(v) THEN <<"-">> ELSE <<>>
        sig  == StripZeros(v.d)
        e    == Len(v.d) - 1
    IN  IF Len(v.d) <= 16
        THEN sign \o DigitStr(v.d) \o <<".", "0">>
        ELSE sign \o <<DigitChars[sig[1] + 1]>>
                  \o (IF Len(sig) > 1 THEN <<".">> \o DigitStr(Tail(sig)) ELSE <<>>)
                  \o <<"e", "+">> \o Pad(e, 2)

\* str(v)
Str(v) ==
    CASE v.t = "null" -> str_None
      [] v.t = "text" -> v.s
      [] v.t = "int"  -> (IF v.neg THEN <<"-">> ELSE <<>>) \o DigitStr(v.d)
      [] OTHER        -> FloatRepr(v)

\* A row (dict(row) of line 105): the columns in table order, each with its value
HasCol(row_dict, key) == \E i \in 1..Len(row_dict) : row_dict[i].k = key

Get(row_dict, key) == row_dict[CHOOSE i \in 1..Len(row_dict) : row_dict[i].k = key].v

-----------------------------------------------------------------------------
(* datetime                                                                 *)

\* 10 ** 12, the threshold of line 225
MillisThreshold == <<1, 0, 0, 0, 0, 0, 0, 0, 0, 0, 0, 0, 0>>

\* 2 ** 63: beyond it a float does not fit the platform time_t (OverflowError)
TimeTLimit == <<9, 2, 2, 3, 3, 7, 2, 0, 3, 6, 8, 5, 4, 7, 7, 5, 8, 0, 8>>

\* 9999-12-31T23:59:59 and 0001-01-01T00:00:00 as seconds since the epoch
MaxEpoch == <<2, 5, 3, 4, 0, 2, 3, 0, 0, 7, 9, 9>>

MinEpoch == <<6, 2, 1, 3, 5, 5, 9, 6, 8, 0, 0>>

\* ts > 1e12
IsMillis(v) == ~v.neg /\ DigitsLess(MillisThreshold, v.d)

\* ts / 1000 (true division: the result is a float)
DivThousand(v) ==
    LET n == Len(v.d)
    IN  [t |-> "real", neg |-> v.neg, d |-> SubSeq(v.d, 1, n - 3),
         frac |-> 100 * v.d[n - 2] + 10 * v.d[n - 1] + v.d[n]]

\* quotient and remainder of a digit sequence by a small divisor
RECURSIVE DivMod(_, _, _, _, _)
DivMod(d, n, i, q, r) ==
    IF i > Len(d) THEN [q |-> q, r |-> r]
    ELSE LET cur == 10 * r + d[i]
         IN  DivMod(d, n, i + 1, 10 * q + (cur \div n), cur % n)

\* year, month, day of a day number counted from 1970-01-01
CivilFromDays(days) ==
    LET z   == days + 719468
        era == z \div 146097
        doe == z - era * 146097
        yoe == (doe - (doe \div 1460) + (doe \div 36524) - (doe \div 146096)) \div 365
        doy == doe - (365 * yoe + (yoe \div 4) - (yoe \div 100))
        mp  == (5 * doy + 2) \div 153
        dd  == doy - ((153 * mp + 2) \div 5) + 1
        mm  == IF mp < 10 THEN mp + 3 ELSE mp - 9
    IN  [y |-> yoe + era * 400 + (IF mm <= 2 THEN 1 ELSE 0), m |-> mm, d |-> dd]

\* day number of a date, counted from 1970-01-01
DaysFromCivil(y, m, d) ==
    LET yy  == IF m <= 2 THEN y - 1 ELSE y
        era == yy \div 400
        yoe == yy - era * 400
        doy == ((153 * (IF m > 2 THEN m - 3 ELSE m + 9) + 2) \div 5) + d - 1
        doe == yoe * 365 + (yoe \div 4) - (yoe \div 100) + doy
    IN  era * 146097 + doe - 719468

\* datetime.isoformat() of a date and a second of the day (local time is UTC)
IsoFormat(days, sod, frac) ==
    LET c == CivilFromDays(days)
    IN  Pad(c.y, 4) \o <<"-">> \o Pad(c.m, 2) \o <<"-">> \o Pad(c.d, 2) \o <<"T">>
        \o Pad(sod \div 3600, 2) \o <<":">> \o Pad((sod % 3600) \div 60, 2)
        \o <<":">> \o Pad(sod % 60, 2)
        \o (IF frac = 0 THEN <<>> ELSE <<".">> \o Pad(frac, 3) \o <<"0", "0", "0">>)

\* datetime.fromtimestamp(ts).isoformat(): the string, or the exception raised.
\* A float beyond the time_t range raises OverflowError; a value inside it
\* whose year is outside 1..9999 raises ValueError (or OSError).
FromTimestamp(v) ==
    IF v.t = "real" /\ ~DigitsLess(v.d, TimeTLimit)
    THEN [ok |-> FALSE, exc |-> "OverflowError"]
    ELSE IF \/ (~v.neg /\ DigitsLess(MaxEpoch, v.d))
            \/ (v.neg /\ DigitsLess(MinEpoch, v.d))
            \/ (v.neg /\ v.d = MinEpoch /\ v.frac > 0)
    THEN [ok |-> FALSE, exc |-> "ValueError"]
    ELSE LET qr   == DivMod(v.d, 86400, 1, 0, 0)
             neg  == v.neg /\ ~IsZero(v)
             days == IF ~neg THEN qr.q ELSE IF qr.r = 0 THEN -qr.q ELSE -qr.q - 1
             sod  == IF ~neg \/ qr.r = 0 THEN qr.r ELSE 86400 - qr.r
         IN  [ok |-> TRUE, s |-> IsoFormat(days, sod, v.frac)]

DigitsAt(s, i, n) ==
    i + n - 1 <= Len(s) /\ \A j \in i..(i + n - 1) : s[j] \in Range(DigitChars)

RECURSIVE NumAt(_, _, _)
NumAt(s, i, n) ==
    IF n = 0 THEN 0 ELSE 10 * NumAt(s, i, n - 1) + DigitVal(s[i + n - 1])

DaysInMonth(y, m) ==
    IF m = 2
    THEN (IF (y % 4 = 0 /\ y % 100 # 0) \/ y % 400 = 0 THEN 29 ELSE 28)
    ELSE IF m \in {4, 6, 9, 11} THEN 30 ELSE 31

\* datetime.fromisoformat(s) for the shapes YYYY-MM-DD, then optionally a
\* separator and HH:MM:SS, then optionally .ffffff, then optionally +HH:MM or
\* -HH:MM; any other string raises ValueError (ok = FALSE).  An offset makes
\* the datetime aware; days / sod / micro are then those of the UTC instant.
FromIsoFormat(s) ==
    LET n      == Len(s)
        dateOk == /\ n >= 10
                  /\ DigitsAt(s, 1, 4) /\ s[5] = "-"
                  /\ DigitsAt(s, 6, 2) /\ s[8] = "-"
                  /\ DigitsAt(s, 9, 2)
        y      == NumAt(s, 1, 4)
        m      == NumAt(s, 6, 2)
        d      == NumAt(s, 9, 2)
        dateIn == y >= 1 /\ m \in 1..12 /\ d >= 1 /\ d <= DaysInMonth(y, m)
        timeOk == /\ n >= 19
                  /\ DigitsAt(s, 12, 2) /\ s[14] = ":"
                  /\ DigitsAt(s, 15, 2) /\ s[17] = ":"
                  /\ DigitsAt(s, 18, 2)
        hh     == NumAt(s, 12, 2)
        mi     == NumAt(s, 15, 2)
        ss     == NumAt(s, 18, 2)
        timeIn == hh <= 23 /\ mi <= 59 /\ ss <= 59
        hasFr  == n >= 20 /\ s[20] = "."
        frOk   == DigitsAt(s, 21, 6)
        micro  == IF hasFr THEN NumAt(s, 21, 6) ELSE 0
        tzAt   == IF hasFr THEN 27 ELSE 20
        hasTz  == n >= tzAt
        tzOk   == /\ n = tzAt + 5
                  /\ s[tzAt] \in {"+", "-"}
                  /\ DigitsAt(s, tzAt + 1, 2) /\ s[tzAt + 3] = ":"
                  /\ DigitsAt(s, tzAt + 4, 2)
                  /\ NumAt(s, tzAt + 1, 2) <= 23 /\ NumAt(s, tzAt + 4, 2) <= 59
        off    == (IF s[tzAt] = "-" THEN -60 ELSE 60)
                  * (60 * NumAt(s, tzAt + 1, 2) + NumAt(s, tzAt + 4, 2))
        days   == DaysFromCivil(y, m, d)
        sod    == 3600 * hh + 60 * mi + ss
        bad    == [ok |-> FALSE]
    IN  IF ~(dateOk /\ dateIn) THEN bad
        ELSE IF n = 10
        THEN [ok |-> TRUE, aware |-> FALSE, days |-> days, sod |-> 0, micro |-> 0]
        ELSE IF ~(timeOk /\ timeIn) THEN bad
        ELSE IF hasFr /\ ~frOk THEN bad
        ELSE IF ~hasTz
        THEN [ok |-> TRUE, aware |-> FALSE, days |-> days, sod |-> sod, micro |-> micro]
        ELSE IF ~tzOk THEN bad
        ELSE [ok |-> TRUE, aware |-> TRUE,
              days |-> days + ((sod - off) \div 86400),
              sod |-> (sod - off) % 86400, micro |-> micro]

\* a < b for two datetimes of the same kind
DtLess(a, b) ==
    \/ a.days < b.days
    \/ a.days = b.days /\ a.sod < b.sod
    \/ a.days = b.days /\ a.sod = b.sod /\ a.micro < b.micro

\* comparing an aware with a naive datetime raises TypeError
Comparable(a, b) == a.aware = b.aware

-----------------------------------------------------------------------------
(* The row heuristics                                                       *)

chat_keys ==
    <<k_composerData, k_aichat, k_composerChatViewPane, k_generations, k_prompts>>

timestamp_keys == <<col_timestamp, col_created_at, col_updated_at, col_time, col_date>>

\* a variant of extract_chat_content that wants the key to equal a chat key
extract_chat_content_exact(row_dict) ==
    IF ~HasCol(row_dict, col_key) \/ ~HasCol(row_dict, col_value) THEN Null
    ELSE LET key   == Str(Get(row_dict, col_key))
             value == Str(Get(row_dict, col_value))
         IN  IF \E i \in 1..Len(chat_keys) : chat_keys[i] = key
             THEN Text(CHAT_DATA_prefix \o key \o colon_space \o value)
             ELSE Null

\* extract_chat_content: the text, or Null
extract_chat_content(row_dict) ==
    IF ~HasCol(row_dict, col_key) \/ ~HasCol(row_dict, col_value) THEN Null
    ELSE LET key   == Str(Get(row_dict, col_key))
             value == Str(Get(row_dict, col_value))
         IN  IF \E i \in 1..Len(chat_keys) : IsSubstr(chat_keys[i], key)
             THEN Text(CHAT_DATA_prefix \o key \o colon_space \o value)
             ELSE Null

\* the test of lines 184-186 on one field's string form
IsMeaningful(str_value) ==
    /\ Len(str_value) > IdLength
    /\ ~IsDigit(str_value)
    /\ ~(Len(str_value) < ShortLength /\ IsAlnum(Remove(Remove(str_value, "-"), "_")))

\* extract_text_content_broad: the text, or Null
extract_text_content_broad(row_dict) ==
    LET kept == SelectSeq(row_dict,
                   LAMBDA f : f.v.t # "null" /\ IsMeaningful(Str(f.v)))
        text_content == [i \in 1..Len(kept) |-> kept[i].k \o colon_space \o Str(kept[i].v)]
    IN  IF text_content # <<>> THEN Text(Join(newline, text_content)) ELSE Null

\* extract_timestamp from the i-th candidate key on: the timestamp (text or
\* Null), or the exception that leaves the function
RECURSIVE extract_timestamp_from(_, _)

\* lines 227 and 231-232 for the outcome r of fromtimestamp(ts).isoformat():
\* ValueError and OSError are caught and the next key is tried
TimestampRendered(row_dict, i, r) ==
    IF r.ok THEN [ok |-> TRUE, v |-> Text(r.s)]
    ELSE IF r.exc \in {"ValueError", "OSError"}
    THEN extract_timestamp_from(row_dict, i + 1)
    ELSE [ok |-> FALSE, exc |-> r.exc]

\* lines 220-230 for the value v of the key at hand
TimestampOf(row_dict, i, v) ==
    IF IsNumber(v)
    THEN TimestampRendered(row_dict, i,
                           FromTimestamp(IF IsMillis(v) THEN DivThousand(v) ELSE v))
    ELSE [ok |-> TRUE, v |-> Text(Str(v))]

extract_timestamp_from(row_dict, i) ==
    IF i > Len(timestamp_keys) THEN [ok |-> TRUE, v |-> Null]
    ELSE IF HasCol(row_dict, timestamp_keys[i]) /\ Truthy(Get(row_dict, timestamp_keys[i]))
    THEN TimestampOf(row_dict, i, Get(row_dict, timestamp_keys[i]))
    ELSE extract_timestamp_from(row_dict, i + 1)

extract_timestamp(row_dict) == extract_timestamp_from(row_dict, 1)

-----------------------------------------------------------------------------
(* Entries and the two filters                                              *)

\* extract_workspace_info (the database's directory name is its id)
extract_workspace_info(db) ==
    [workspace_id |-> db.id, db_path |-> db.id,
     last_modified |-> IsoFormat(db.mtime \div 86400, db.mtime % 86400, 0)]

\* the dict literals of lines 110-118 and 124-131 (matched_keywords is not
\* yet a key of the entry: has = FALSE)
ChatEntry(db, table, row_dict, text_content, timestamp, data_type) ==
    [workspace |-> extract_workspace_info(db), table |-> table.name,
     columns |-> table.columns, raw_data |-> row_dict,
     text_content |-> text_content, timestamp |-> timestamp,
     data_type |-> data_type, matched_keywords |-> [has |-> FALSE, v |-> <<>>]]

\* the body of the loop of line 104 for one row: the entries appended, or the
\* exception extract_timestamp raised
RowEntriesOf(db, table, row_dict, chat_content, text_content, ts) ==
    IF (Truthy(chat_content) \/ Truthy(text_content)) /\ ~ts.ok
    THEN [ok |-> FALSE, exc |-> ts.exc]
    ELSE [ok |-> TRUE,
          v |-> (IF Truthy(chat_content)
                 THEN <<ChatEntry(db, table, row_dict, chat_content.s, ts.v, "chat_data")>>
                 ELSE <<>>)
                \o (IF Truthy(text_content)
                    THEN <<ChatEntry(db, table, row_dict, text_content.s, ts.v, "absent")>>
                    ELSE <<>>)]

RowEntries(db, table, row_dict) ==
    RowEntriesOf(db, table, row_dict, extract_chat_content(row_dict),
                 extract_text_content_broad(row_dict), extract_timestamp(row_dict))

\* SELECT * FROM table LIMIT 10
SampleRows(table) ==
    SubSeq(table.rows, 1, IF Len(table.rows) < SampleLimit THEN Len(table.rows) ELSE SampleLimit)

\* lines 97-134 for a table whose queries succeed
RECURSIVE RowsEntries(_, _, _, _, _)

\* the loop goes on after a row, unless the row raised
RowsEntriesAfter(db, table, sample_rows, i, acc, r) ==
    IF r.ok THEN RowsEntries(db, table, sample_rows, i + 1, acc \o r.v) ELSE r

RowsEntries(db, table, sample_rows, i, acc) ==
    IF i > Len(sample_rows) THEN [ok |-> TRUE, v |-> acc]
    ELSE RowsEntriesAfter(db, table, sample_rows, i, acc,
                          RowEntries(db, table, sample_rows[i]))

TableEntries(db, table) == RowsEntries(db, table, SampleRows(table), 1, <<>>)

\* a variant of matched_keywords that extends the list the entry already has
matched_keywords_accumulated(chat, keywords_lower) ==
    LET text == Lower(chat.text_content)
    IN  chat.matched_keywords.v \o SelectSeq(keywords_lower, LAMBDA k : IsSubstr(k, text))

\* line 247: the value given to chat['matched_keywords']
matched_keywords(chat, keywords_lower) ==
    LET text == Lower(chat.text_content)
    IN  SelectSeq(keywords_lower, LAMBDA k : IsSubstr(k, text))

\* filter_by_keywords
filter_by_keywords(chats_in, kws) ==
    IF kws = <<>> THEN chats_in
    ELSE LET keywords_lower == [i \in 1..Len(kws) |-> Lower(kws[i])]
             Passes(chat) ==
                 \E i \in 1..Len(keywords_lower) :
                     IsSubstr(keywords_lower[i], Lower(chat.text_content))
             filtered == SelectSeq(chats_in, Passes)
         IN  [i \in 1..Len(filtered) |->
                [filtered[i] EXCEPT !.matched_keywords =
                    [has |-> TRUE, v |-> matched_keywords(filtered[i], keywords_lower)]]]

\* a variant of invalid_date_format that fails closed
invalid_date_format_closed(chats_in) == <<>>

\* lines 262-264: what filter_by_date returns when a bound does not parse
invalid_date_format(chats_in) == chats_in

\* lines 267-281 for one entry: "skip", "keep", or "raise" (TypeError: an aware
\* datetime compared with a naive one)
CompareDates(chat_dt, start_dt, end_dt) ==
    IF ~chat_dt.ok THEN "skip"
    ELSE IF start_dt.has /\ ~Comparable(chat_dt, start_dt.dt) THEN "raise"
    ELSE IF start_dt.has /\ DtLess(chat_dt, start_dt.dt) THEN "skip"
    ELSE IF end_dt.has /\ ~Comparable(chat_dt, end_dt.dt) THEN "raise"
    ELSE IF end_dt.has /\ DtLess(end_dt.dt, chat_dt) THEN "skip"
    ELSE "keep"

DateVerdict(chat, start_dt, end_dt) ==
    IF ~Truthy(chat.timestamp) THEN "skip"
    ELSE CompareDates(FromIsoFormat(ReplaceZ(chat.timestamp.s)), start_dt, end_dt)

RECURSIVE DateLoop(_, _, _, _, _)

DateLoopAfter(chats_in, i, start_dt, end_dt, filtered, verdict) ==
    IF verdict = "raise" THEN [ok |-> FALSE, exc |-> "TypeError"]
    ELSE DateLoop(chats_in, i + 1, start_dt, end_dt,
                  IF verdict = "keep" THEN Append(filtered, chats_in[i]) ELSE filtered)

\* the loop of line 266 from the i-th entry on
DateLoop(chats_in, i, start_dt, end_dt, filtered) ==
    IF i > Len(chats_in) THEN [ok |-> TRUE, v |-> filtered]
    ELSE DateLoopAfter(chats_in, i, start_dt, end_dt, filtered,
                       DateVerdict(chats_in[i], start_dt, end_dt))

Parsed(dt) == [valid |-> dt.ok, has |-> TRUE, dt |-> dt]

\* datetime.fromisoformat(bound) if bound else None
ParseBound(bound) ==
    IF Truthy(bound) THEN Parsed(FromIsoFormat(bound.s))
    ELSE [valid |-> TRUE, has |-> FALSE, dt |-> [ok |-> FALSE]]

\* lines 259-283 for the parsed bounds
FilterWithBounds(chats_in, start_dt, end_dt) ==
    IF ~start_dt.valid \/ ~end_dt.valid
    THEN [ok |-> TRUE, v |-> invalid_date_format(chats_in)]
    ELSE DateLoop(chats_in, 1, start_dt, end_dt, <<>>)

\* filter_by_date: the list returned, or the exception raised
filter_by_date(chats_in, start, end) ==
    IF ~Truthy(start) /\ ~Truthy(end) THEN [ok |-> TRUE, v |-> chats_in]
    ELSE FilterWithBounds(chats_in, ParseBound(start), ParseBound(end))

-----------------------------------------------------------------------------
(* The run: export_chats, with query_database inlined at its call           *)

None == [kind |-> "none"]

\* list.sort(key=mtime, reverse=True): stable, most recent first
RECURSIVE InsertDesc(_, _)
InsertDesc(sorted, db) ==
    IF sorted = <<>> THEN <<db>>
    ELSE IF Head(sorted).mtime < db.mtime THEN <<db>> \o sorted
    ELSE <<Head(sorted)>> \o InsertDesc(Tail(sorted), db)

RECURSIVE SortRecentFirst(_)
SortRecentFirst(dbs) ==
    IF dbs = <<>> THEN <<>>
    ELSE InsertDesc(SortRecentFirst(SubSeq(dbs, 1, Len(dbs) - 1)), dbs[Len(dbs)])

\* find_databases
find_databases(exists, found, hours) ==
    IF ~exists THEN <<>>
    ELSE IF hours # 0
    THEN SelectSeq(found, LAMBDA db : db.mtime > Now - hours * SecondsPerHour)
    ELSE found

\* lines 298-302: the most recent first, the first five of them
debug_selection(dbs) ==
    SubSeq(SortRecentFirst(dbs), 1, IF Len(dbs) < DebugLimit THEN Len(dbs) ELSE DebugLimit)

\* lines 289-305: discovery, the early return, the debug selection
Discover ==
    /\ pc = "start"
    /\ LET found == find_databases(storage_exists, files, recent_hours)
       IN  /\ hist' = [hist EXCEPT !.found = found]
           /\ IF found = <<>>
              THEN /\ pc' = "done"
                   /\ ret' = [kind |-> "empty"]
                   /\ UNCHANGED databases
              ELSE /\ pc' = "open"
                   /\ databases' = IF debug_mode THEN debug_selection(found) ELSE found
                   /\ UNCHANGED ret
    /\ dbi' = 1
    /\ all_chats' = <<>>
    /\ UNCHANGED <<inputs, tables, ti, chats, open_conns, opened, out_dir, out_file, exc>>

\* lines 306-308 and 72-83: query_database is entered, the connection is made
\* and the tables are listed.  A connect that fails leaves no connection; a
\* listing that fails (the file is not a database) is caught at line 142 with
\* the connection made and conn.close() of line 140 skipped.
QueryOpen ==
    /\ pc = "open"
    /\ LET db == databases[dbi]
       IN  /\ opened' = Append(opened, db.id)
           /\ chats' = <<>>
           /\ open_conns' = IF db.open = "connect_error" THEN open_conns
                            ELSE open_conns \cup {db.id}
           /\ IF db.open = "ok"
              THEN tables' = db.tables /\ ti' = 1 /\ pc' = "tables"
              ELSE pc' = "collect" /\ UNCHANGED <<tables, ti>>
    /\ UNCHANGED <<inputs, databases, dbi, all_chats, out_dir, out_file, ret, exc, hist>>

\* a variant of table_error that leaves the loop (break)
table_error_aborts(i, n) == n + 1

\* lines 136-138: the error is printed and the loop continues with the next
\* table (i of n): the index the loop is at afterwards
table_error(i, n) == i + 1

\* lines 97-134 with the outcome r of the rows: the entries are appended, or
\* the exception leaves query_database with the connection open
TableScanned(r) ==
    IF r.ok
    THEN /\ chats' = chats \o r.v
         /\ ti' = ti + 1
         /\ UNCHANGED <<pc, exc>>
    ELSE /\ pc' = "crashed"
         /\ exc' = [kind |-> r.exc]
         /\ UNCHANGED <<chats, ti>>

\* lines 87-138, one iteration: a table whose schema, count or sample query
\* raises sqlite3.Error is skipped; an exception of extract_timestamp is not
\* an sqlite3.Error and leaves query_database and export_chats
QueryTable ==
    /\ pc = "tables"
    /\ ti <= Len(tables)
    /\ IF tables[ti].fail # "none"
       THEN /\ ti' = table_error(ti, Len(tables))
            /\ UNCHANGED <<chats, pc, exc>>
       ELSE TableScanned(TableEntries(databases[dbi], tables[ti]))
    /\ UNCHANGED <<inputs, databases, dbi, tables, all_chats, open_conns, opened,
                   out_dir, out_file, ret, hist>>

\* lines 140 and 145: conn.close(), return chats
QueryClose ==
    /\ pc = "tables"
    /\ ti > Len(tables)
    /\ open_conns' = open_conns \ {databases[dbi].id}
    /\ pc' = "collect"
    /\ UNCHANGED <<inputs, databases, dbi, tables, ti, chats, all_chats, opened,
                   out_dir, out_file, ret, exc, hist>>

\* lines 309-312: all_chats.extend(chats), then the next database or the filters
Collect ==
    /\ pc = "collect"
    /\ all_chats' = all_chats \o chats
    /\ IF dbi < Len(databases)
       THEN dbi' = dbi + 1 /\ pc' = "open" /\ UNCHANGED hist
       ELSE /\ pc' = "filter_keywords"
            /\ hist' = [hist EXCEPT !.scan = all_chats \o chats]
            /\ UNCHANGED dbi
    /\ UNCHANGED <<inputs, databases, tables, ti, chats, open_conns, opened,
                   out_dir, out_file, ret, exc>>

\* lines 315-318
FilterKeywords ==
    /\ pc = "filter_keywords"
    /\ IF keywords # <<>>
       THEN /\ all_chats' = filter_by_keywords(all_chats, keywords)
            /\ hist' = [hist EXCEPT !.filters = Append(@, "keywords")]
       ELSE UNCHANGED <<all_chats, hist>>
    /\ pc' = "filter_date"
    /\ UNCHANGED <<inputs, databases, dbi, tables, ti, chats, open_conns, opened,
                   out_dir, out_file, ret, exc>>

\* line 322 with the outcome r of filter_by_date
DateFiltered(r) ==
    IF r.ok
    THEN all_chats' = r.v /\ pc' = "write" /\ UNCHANGED exc
    ELSE pc' = "crashed" /\ exc' = [kind |-> r.exc] /\ UNCHANGED all_chats

\* lines 320-323: a TypeError of filter_by_date leaves export_chats
FilterDate ==
    /\ pc = "filter_date"
    /\ IF Truthy(start_date) \/ Truthy(end_date)
       THEN /\ hist' = [hist EXCEPT !.filters = Append(@, "date"),
                                     !.date_in = all_chats]
            /\ DateFiltered(filter_by_date(all_chats, start_date, end_date))
       ELSE pc' = "write" /\ UNCHANGED <<all_chats, exc, hist>>
    /\ UNCHANGED <<inputs, databases, dbi, tables, ti, chats, open_conns, opened,
                   out_dir, out_file, ret>>

\* lines 325-353: the directory, the file name, the document, the return
WriteExport ==
    /\ pc = "write"
    /\ out_dir' = TRUE
    /\ LET keywords_str == IF keywords # <<>> THEN Join(<<"_">>, keywords)
                           ELSE <<"a", "l", "l">>
       IN  /\ out_file' =
                [kind |-> "file", name |-> keywords_str,
                 export_info |->
                    [total_entries |-> Len(all_chats), keywords |-> keywords,
                     date_range |-> [start |-> start_date, end |-> end_date],
                     databases_processed |-> Len(databases)],
                 chats |-> all_chats]
           /\ ret' = [kind |-> "path", name |-> keywords_str]
    /\ pc' = "done"
    /\ UNCHANGED <<inputs, databases, dbi, tables, ti, chats, all_chats, open_conns,
                   opened, exc, hist>>

\* The interpreter reclaims a connection object nothing refers to any more
\* (one that query_database left open when it returned or raised) and closes
\* it; when, if ever, is up to the interpreter.
Finalize ==
    /\ pc # "tables"
    /\ \E id \in open_conns : open_conns' = open_conns \ {id}
    /\ UNCHANGED <<inputs, pc, databases, dbi, tables, ti, chats, all_chats, opened,
                   out_dir, out_file, ret, exc, hist>>

\* filter_by_keywords applied once more to its own result
FilterAgain ==
    /\ pc = "filter_date"
    /\ ~hist.again
    /\ all_chats' = filter_by_keywords(all_chats, keywords)
    /\ hist' = [hist EXCEPT !.again = TRUE, !.before = all_chats]
    /\ UNCHANGED <<inputs, pc, databases, dbi, tables, ti, chats, open_conns, opened,
                   out_dir, out_file, ret, exc>>

Run ==
    \/ Discover
    \/ QueryOpen
    \/ QueryTable
    \/ QueryClose
    \/ Collect
    \/ FilterKeywords
    \/ FilterDate
    \/ WriteExport

Next == Run \/ Finalize

-----------------------------------------------------------------------------
(* The inputs the runs are started from                                     *)

Row(columns, values) == [i \in 1..Len(columns) |-> [k |-> columns[i], v |-> values[i]]]

Table(name, columns, rows, fail) ==
    [name |-> name, columns |-> columns,
     rows |-> [i \in 1..Len(rows) |-> Row(columns, rows[i])], fail |-> fail]

Database(id, mtime, open, tbls) == [id |-> id, mtime |-> mtime, open |-> open, tables |-> tbls]

\* sequences over S of length at most n
SeqsUpTo(S, n) == UNION {[1..k -> S] : k \in 0..n}

\* modification times: two hours old, ten minutes old, one minute old
OldMTime == Now - 2 * SecondsPerHour

RecentMTime == Now - 600

NewestMTime == Now - 60

N_zero == <<0>>

N_1700000000 == <<1, 7, 0, 0, 0, 0, 0, 0, 0, 0>>

N_1700000000000 == <<1, 7, 0, 0, 0, 0, 0, 0, 0, 0, 0, 0, 0>>

N_1717200000 == <<1, 7, 1, 7, 2, 0, 0, 0, 0, 0>>

N_1e30 ==
    <<1, 0, 0, 0, 0, 0, 0, 0, 0, 0, 0, 0, 0, 0, 0, 0, 0, 0, 0, 0, 0, 0, 0, 0, 0, 0, 0,
      0, 0, 0, 0>>

\* the table of the end-to-end example
ItemTableRows ==
    <<<<Text(key_aichat_view), Text(val_conversation)>>,
      <<Text(key_unrelated), Text(val_42)>>>>

\* a table holding one row more than the sample limit
NotesRows == [i \in 1..(SampleLimit + 1) |-> <<Text(val_rails_notes)>>]

\* a row whose REAL timestamp is 1e30
EventsRows == <<<<Integer(FALSE, <<7>>), Real(FALSE, N_1e30), Text(val_api_guide)>>>>

TableContents ==
    {[name |-> tbl_ItemTable, columns |-> <<col_key, col_value>>, rows |-> ItemTableRows],
     [name |-> tbl_notes, columns |-> <<col_body>>, rows |-> NotesRows],
     [name |-> tbl_events, columns |-> <<col_id, col_timestamp, col_body>>,
      rows |-> EventsRows],
     [name |-> tbl_empty, columns |-> <<col_key, col_value>>, rows |-> <<>>]}

FailStages == {"schema", "count", "sample"}

\* the table lists of a database: each table sound or failing, the failing
\* ones all at the same query
TableLists ==
    UNION {{[i \in 1..Len(cs) |->
               Table(cs[i].name, cs[i].columns, cs[i].rows,
                     IF bad[i] THEN stage ELSE "none")] :
              bad \in [1..Len(cs) -> BOOLEAN], stage \in FailStages} :
           cs \in SeqsUpTo(TableContents, MaxTables)}

Opens == {"connect_error", "not_a_database"}

\* the first database of a run: any table list, or a file that does not open
FirstDatabases ==
    {Database(1, RecentMTime, "ok", tl) : tl \in TableLists}
    \cup {Database(1, RecentMTime, o, <<>>) : o \in Opens}

\* the database after it: the end-to-end example's, or a file that does not open
LaterDatabases ==
    {Database(2, RecentMTime, "ok",
              <<Table(tbl_ItemTable, <<col_key, col_value>>, ItemTableRows, "none")>>),
     Database(2, RecentMTime, "connect_error", <<>>)}

NoHistory ==
    [found |-> <<>>, filters |-> <<>>, scan |-> <<>>, date_in |-> <<>>,
     again |-> FALSE, before |-> <<>>]

\* the state export_chats is entered in
Start ==
    /\ pc = "start"
    /\ databases = <<>>
    /\ dbi = 1
    /\ tables = <<>>
    /\ ti = 1
    /\ chats = <<>>
    /\ all_chats = <<>>
    /\ open_conns = {}
    /\ opened = <<>>
    /\ out_dir = FALSE
    /\ out_file = None
    /\ ret = None
    /\ exc = None
    /\ hist = NoHistory

\* Runs over one or two databases with every table list
Init ==
    /\ storage_exists = TRUE
    /\ files \in {<<d>> : d \in FirstDatabases}
                 \cup {<<d, e>> : d \in FirstDatabases, e \in LaterDatabases}
    /\ keywords \in {<<>>, <<kw_rails>>}
    /\ start_date = Null
    /\ end_date = Null
    /\ debug_mode = FALSE
    /\ recent_hours = 0
    /\ Start

Spec == Init /\ [][Next]_vars


\* Runs in debug mode or not over up to MaxDbs databases of three ages, under
\* a recency window or none; the first file found may hold the 1e30 row
PlainTables == <<Table(tbl_notes, <<col_body>>, <<<<Text(val_rails_notes)>>>>, "none")>>

CrashTables ==
    <<Table(tbl_events, <<col_id, col_timestamp, col_body>>, EventsRows, "none")>>

MTimes == {OldMTime, RecentMTime, NewestMTime}

InitDebug ==
    /\ storage_exists \in BOOLEAN
    /\ \E n \in 0..MaxDbs : \E mt \in [1..n -> MTimes] : \E crash \in BOOLEAN :
          files = [i \in 1..n |->
                     Database(i, mt[i], "ok",
                              IF crash /\ i = 1 THEN CrashTables ELSE PlainTables)]
    /\ ~storage_exists => files = <<>>
    /\ keywords \in {<<kw_rails>>, <<kw_zzz>>}
    /\ start_date = Null
    /\ end_date = Null
    /\ debug_mode \in BOOLEAN
    /\ recent_hours \in {0, 1}
    /\ Start

SpecDebug == InitDebug /\ [][Next]_vars

\* Runs over one table of texts under every short keyword list
KeywordChoices == {<<>>, kw_rails, kw_Rails, kw_api, kw_zzz}

TextRows == {<<Text(val_rails_notes)>>, <<Text(val_api_guide)>>, <<Text(val_plain)>>}

InitKeywords ==
    /\ storage_exists = TRUE
    /\ \E rows \in SeqsUpTo(TextRows, MaxRows) :
          files = <<Database(1, RecentMTime, "ok",
                             <<Table(tbl_notes, <<col_body>>, rows, "none")>>)>>
    /\ keywords \in SeqsUpTo(KeywordChoices, MaxKeywords)
    /\ start_date = Null
    /\ end_date = Null
    /\ debug_mode = FALSE
    /\ recent_hours = 0
    /\ Start

SpecKeywords == InitKeywords /\ [][Run \/ FilterAgain]_vars

\* Runs over one table of timestamped rows under every pair of date bounds
DateStamps ==
    {Null, Text(ts_before), Text(ts_midnight), Text(ts_after), Text(ts_zulu),
     Text(ts_words), Integer(FALSE, N_1717200000)}

DateBounds == {Null, Text(d_2024_06_01), Text(d_slashes)}

InitDates ==
    /\ storage_exists = TRUE
    /\ \E stamps \in SeqsUpTo(DateStamps, MaxRows) :
          files = <<Database(1, RecentMTime, "ok",
                             <<Table(tbl_events, <<col_timestamp, col_body>>,
                                     [i \in 1..Len(stamps) |-> <<stamps[i], Text(val_plain)>>],
                                     "none")>>)>>
    /\ keywords = <<>>
    /\ start_date \in DateBounds
    /\ end_date \in DateBounds
    /\ debug_mode = FALSE
    /\ recent_hours = 0
    /\ Start

SpecDates == InitDates /\ [][Run]_vars

\* Runs over one row that holds a text and at most two of the timestamp keys
TimestampValues ==
    {Null, Text(<<>>), Text(ts_words), Integer(FALSE, N_zero),
     Integer(FALSE, N_1700000000), Integer(FALSE, N_1700000000000),
     Integer(FALSE, MillisThreshold), Real(FALSE, N_1e30)}

TimestampColumns ==
    {<<>>} \cup {<<timestamp_keys[i]>> : i \in 1..Len(timestamp_keys)}
    \cup UNION {{<<timestamp_keys[i], timestamp_keys[j]>> :
                    j \in (1..Len(timestamp_keys)) \ {i}} : i \in 1..Len(timestamp_keys)}

InitTimestamps ==
    /\ storage_exists = TRUE
    /\ \E cols \in TimestampColumns : \E vals \in [1..Len(cols) -> TimestampValues] :
          files = <<Database(1, RecentMTime, "ok",
                             <<Table(tbl_events, cols \o <<col_body>>,
                                     <<vals \o <<Text(val_plain)>>>>, "none")>>)>>
    /\ keywords = <<>>
    /\ start_date = Null
    /\ end_date = Null
    /\ debug_mode = FALSE
    /\ recent_hours = 0
    /\ Start

SpecTimestamps == InitTimestamps /\ [][Next]_vars

-----------------------------------------------------------------------------
(* Properties                                                               *)

Finished == pc \in {"done", "crashed"}

Scanned == pc \in {"filter_keywords", "filter_date", "write", "done"}

Matched(chat, kws) == chat.matched_keywords = [has |-> TRUE, v |-> kws]

E2EDatabase ==
    Database(1, RecentMTime, "ok",
             <<Table(tbl_ItemTable, <<col_key, col_value>>, ItemTableRows, "none")>>)

\* the run of the end-to-end example has written its export
E2EExported ==
    /\ files = <<E2EDatabase>>
    /\ keywords = <<kw_rails>>
    /\ ~Truthy(start_date) /\ ~Truthy(end_date)
    /\ pc = "done"

\* C1 as stated: the end-to-end example (one database, table ItemTable with
\* the aichat row and the unrelated.setting row, keywords ["rails"], no date
\* bounds) exports exactly one entry, tagged "chat_data", with
\* matched_keywords ["rails"].
C1_ExportsOneEntry ==
    E2EExported =>
        /\ Len(out_file.chats) = 1
        /\ out_file.chats[1].data_type = "chat_data"
        /\ Matched(out_file.chats[1], <<kw_rails>>)

\* C1 amended: the end-to-end example exports exactly two entries, both from
\* the aichat row: first the one tagged "chat_data", then the untagged one of
\* the broad heuristic, each with matched_keywords ["rails"]; the
\* unrelated.setting row exports nothing.
C1_ExportsTaggedAndUntagged ==
    E2EExported =>
        /\ Len(out_file.chats) = 2
        /\ out_file.export_info.total_entries = 2
        /\ out_file.chats[1].data_type = "chat_data"
        /\ out_file.chats[2].data_type = "absent"
        /\ \A i \in 1..2 :
              /\ Matched(out_file.chats[i], <<kw_rails>>)
              /\ out_file.chats[i].raw_data = Row(<<col_key, col_value>>, ItemTableRows[1])

C1_Witness == E2EExported /\ ret.kind = "path" /\ Len(hist.scan) = 3

\* C2 as stated: a connection is open only while query_database runs on its
\* database: it is closed when query_database has returned, on every path
\* (tables scanned, a table's query failed, the table listing failed), so at
\* most one connection is open at any time and none once the scan is over.
C2_ConnectionsClosed ==
    /\ Cardinality(open_conns) <= 1
    /\ (pc \in {"open", "collect"} \/ Scanned) => open_conns = {}

\* the entries of the non-failing tables among the first k tables of a database
SoundEntries(db, k) ==
    LET sound == SelectSeq(SubSeq(db.tables, 1, k), LAMBDA t : t.fail = "none")
    IN  Concat([i \in 1..Len(sound) |-> TableEntries(db, sound[i]).v])

\* the entries a database contributes: those of its non-failing tables, in
\* table order; none when the file does not open or list
Contribution(db) == IF db.open # "ok" THEN <<>> ELSE SoundEntries(db, Len(db.tables))

\* the contributions of the first k databases of the run
Contributions(k) == Concat([i \in 1..k |-> Contribution(databases[i])])

\* C3: a failing table query (schema, count or sample) is caught and skipped
\* without propagating: while a database is scanned the entries gathered are
\* exactly those of its non-failing tables visited so far, what it returns is
\* the entries of all its non-failing tables (none when it does not open or
\* list), each database is opened with the contributions of the ones before
\* it collected, the scan ends with the contributions of every database, and
\* an exception leaves only from a table whose queries succeeded.
C3_FailuresSkipped ==
    /\ pc \in {"tables", "crashed"} => chats = SoundEntries(databases[dbi], ti - 1)
    /\ pc = "collect" => chats = Contribution(databases[dbi])
    /\ pc = "open" => all_chats = Contributions(dbi - 1)
    /\ pc = "crashed" => tables[ti].fail = "none"
    /\ pc = "filter_keywords" => all_chats = Contributions(Len(databases))

\* a failing table before a sound one that holds entries, in the first of two
\* databases, with the scan over
C3_Witness ==
    /\ pc = "filter_keywords"
    /\ Len(databases) = 2
    /\ Len(databases[1].tables) = 2
    /\ databases[1].tables[1].fail # "none"
    /\ databases[1].tables[2].fail = "none"
    /\ Contribution(databases[1]) # <<>>
    /\ Contribution(databases[2]) # <<>>

BoundMalformed(bound) == Truthy(bound) /\ ~FromIsoFormat(bound.s).ok

\* C4: when a given date bound does not parse, filter_by_date returns its
\* input unchanged (entries without a timestamp or with an unparseable one
\* included), and the export is then written with exactly those entries.
C4_FailOpen ==
    (BoundMalformed(start_date) \/ BoundMalformed(end_date)) =>
        /\ pc # "crashed"
        /\ pc \in {"write", "done"} =>
              /\ hist.filters = <<"date">>
              /\ all_chats = hist.date_in
              /\ all_chats = hist.scan
        /\ pc = "done" =>
              /\ out_file.chats = hist.scan
              /\ out_file.export_info.total_entries = Len(hist.scan)

\* a malformed start bound, two entries of which the first has no timestamp
\* and the second an unparseable one, and the export written
C4_Witness ==
    /\ pc = "done"
    /\ BoundMalformed(start_date)
    /\ Len(out_file.chats) = 2
    /\ ~Truthy(out_file.chats[1].timestamp)
    /\ out_file.chats[2].timestamp = Text(ts_words)

\* the entries the date filter is to keep: timestamp present, parseable, and
\* start <= timestamp <= end for each bound given
InDateRange(chat) ==
    /\ Truthy(chat.timestamp)
    /\ LET dt == FromIsoFormat(ReplaceZ(chat.timestamp.s))
       IN  /\ dt.ok
           /\ Truthy(start_date) => ~DtLess(dt, FromIsoFormat(start_date.s))
           /\ Truthy(end_date) => ~DtLess(FromIsoFormat(end_date.s), dt)

\* C5 as stated: with the given bounds well formed and at least one given,
\* filter_by_date returns exactly the entries, in order, whose timestamp is
\* present, parseable and within the bounds (inclusive); with no bound the
\* entries pass unchanged.
C5_DateRange ==
    (~BoundMalformed(start_date) /\ ~BoundMalformed(end_date)
     /\ pc \in {"write", "done", "crashed"}) =>
        /\ exc = None
        /\ all_chats = IF Truthy(start_date) \/ Truthy(end_date)
                       THEN SelectSeq(hist.scan, InDateRange)
                       ELSE hist.scan

\* C6: filter_by_keywords applied to its own result with the same keywords
\* returns that result: the same entries in the same order with the same
\* matched_keywords (with no keywords, the entries themselves).
C6_Idempotent ==
    hist.again =>
        /\ all_chats = hist.before
        /\ keywords = <<>> => all_chats = hist.scan

\* the filter applied twice to two entries of which one passed
C6_Witness ==
    /\ hist.again
    /\ keywords # <<>>
    /\ Len(hist.scan) = 2
    /\ Len(all_chats) = 1
    /\ all_chats[1].matched_keywords.v # <<>>

\* the first occurrences of a sequence's elements
RECURSIVE Dedup(_)
Dedup(q) ==
    IF q = <<>> THEN <<>>
    ELSE LET rest == Dedup(SubSeq(q, 1, Len(q) - 1))
         IN  IF q[Len(q)] \in Range(rest) THEN rest ELSE Append(rest, q[Len(q)])

KeywordsIn(chat) ==
    SelectSeq([i \in 1..Len(keywords) |-> Lower(keywords[i])],
              LAMBDA k : IsSubstr(k, Lower(chat.text_content)))

\* C7 as stated: with keywords given, the entries that pass are exactly those
\* whose lowercased text holds a keyword, and each carries as matched_keywords
\* the keywords its text holds, in keyword-list order and without duplicates.
C7_MatchedKeywords ==
    (pc = "filter_date" /\ ~hist.again /\ keywords # <<>>) =>
        LET passing == SelectSeq(hist.scan, LAMBDA chat : KeywordsIn(chat) # <<>>)
        IN  all_chats = [i \in 1..Len(passing) |->
                           [passing[i] EXCEPT !.matched_keywords =
                               [has |-> TRUE, v |-> Dedup(KeywordsIn(passing[i]))]]]

MTimeOf(id) == files[id].mtime

\* C8 as stated: a finished run with databases discovered has, in debug mode,
\* scanned exactly min(5, n) of the n discovered, none of them older than one
\* it left out, and otherwise all n; the export's databases_processed is the
\* number scanned.
C8_DebugSelection ==
    (Finished /\ hist.found # <<>>) =>
        LET discovered == {hist.found[i].id : i \in 1..Len(hist.found)}
            scanned    == Range(opened)
        IN  /\ Len(opened) = Cardinality(scanned)
            /\ scanned \subseteq discovered
            /\ debug_mode =>
                  /\ Cardinality(scanned) =
                        IF Len(hist.found) < DebugLimit THEN Len(hist.found) ELSE DebugLimit
                  /\ \A a \in scanned : \A b \in discovered \ scanned :
                        MTimeOf(a) >= MTimeOf(b)
            /\ ~debug_mode => scanned = discovered
            /\ pc = "done" => out_file.export_info.databases_processed = Len(opened)

\* C9 as stated: a run that discovers no database returns the empty result
\* without raising, having opened no database, applied no filter, created no
\* directory and written no file; a run that discovers one writes its file
\* and returns the path.
C9_EmptyOrWritten ==
    Finished =>
        IF hist.found = <<>>
        THEN /\ ret.kind = "empty" /\ exc = None
             /\ opened = <<>> /\ open_conns = {}
             /\ hist.filters = <<>>
             /\ ~out_dir /\ out_file = None
        ELSE /\ exc = None
             /\ out_file.kind = "file"
             /\ ret = [kind |-> "path", name |-> out_file.name]

\* the timestamp C10 describes, from the i-th candidate key on: the first key
\* that is present and not null and whose value can be interpreted
RECURSIVE DescribedTimestamp(_, _)
DescribedTimestamp(row_dict, i) ==
    IF i > Len(timestamp_keys) THEN Null
    ELSE LET key == timestamp_keys[i]
         IN  IF ~HasCol(row_dict, key) \/ Get(row_dict, key) = Null
             THEN DescribedTimestamp(row_dict, i + 1)
             ELSE LET v == Get(row_dict, key)
                      r == FromTimestamp(IF IsMillis(v) THEN DivThousand(v) ELSE v)
                  IN  IF ~IsNumber(v) THEN Text(Str(v))
                      ELSE IF r.ok THEN Text(r.s)
                      ELSE DescribedTimestamp(row_dict, i + 1)

\* C10 as stated: extract_timestamp never raises, and every entry of a row
\* carries the timestamp of the first of timestamp, created_at, updated_at,
\* time, date that is present and not null (0 included) and can be
\* interpreted: a number above 1e12 as milliseconds, any other number as
\* seconds, anything else as its string form.
C10_Timestamp ==
    /\ exc = None
    /\ \A i \in 1..Len(chats) :
          chats[i].timestamp = DescribedTimestamp(chats[i].raw_data, 1)

=============================================================================
